---- MODULE Spec2Model ----
(***************************************************************************)
(* Hyperactive: the particle-swarm optimizer                               *)
(* (src/hyperactive/particle_swarm_optimization.py) and the run            *)
(* coordinator Hyperactive.search (src/hyperactive/hyperactive.py).        *)
(*                                                                         *)
(* Python's None is the empty tuple: an optional value is <<>> or <<v>>,   *)
(* a position is a tuple with one integer per dimension, None is <<>>.     *)
(* A real number (a velocity component, a coefficient, a random draw) is   *)
(* an exact fraction <<numerator, denominator>> in lowest terms.           *)
(***************************************************************************)
EXTENDS Integers, Sequences, FiniteSets, TLC

VARIABLES
    pc,            \* position of the run: new, eval, find, move, final, done, error
    n_steps,       \* n_steps of _start_particle_swarm_optimization
    i,             \* the loop variable of the step loop: steps completed
    c1, c2,        \* the cognitive and social coefficients of _move_particles
    pos,           \* p.pos of every particle
    velo,          \* p.velo of every particle
    p_best_pos,    \* p.best_pos of every particle
    p_best_score,  \* p.best_score of every particle (None until evaluated)
    best_score,    \* self.best_score
    best_pos,      \* self.best_pos (None until a particle improves on it)
    objective,     \* the evaluator's answers so far: a set of <<position, score>>
    result,        \* what the run returned: None or <<[score, pos]>>
    h_pc,          \* Hyperactive.search: idle or running
    calls,         \* number of search calls started on the Hyperactive object
    ray_,          \* ray_ of the running call
    n_jobs,        \* n_jobs of the running call
    pending,       \* the drivers of the running call that have not finished
    driver_out,    \* each finished driver's best result: None or <<score>>
    optimizer_,    \* self._optimizer_: unset (None) or <<[call, best]>>
    results,       \* results_params/results_models/pos_list/score_list: unset or <<[call, best]>>
    outcome,       \* how the last search call ended
    eval_read      \* what the last get_eval_time call did

pso_vars == <<pc, n_steps, i, c1, c2, pos, velo, p_best_pos, p_best_score,
              best_score, best_pos, objective, result>>
h_vars == <<h_pc, calls, ray_, n_jobs, pending, driver_out, optimizer_, results,
            outcome, eval_read>>
vars == <<pso_vars, h_vars>>

(***************************************************************************)
(* Bounds of the model                                                     *)
(***************************************************************************)
NParticles == 2
MaxSteps == 2
MaxJobs == 2
MaxCalls == 2

\* the search space: the number of candidate values of each dimension
DimSizes == <<3>>
\* the scores the evaluator can return
Scores == {-1, 0, 1, 2}
\* the values rnd.random() returns, in [0, 1)
RandomDraws == {<<0, 1>>, <<9, 10>>}

Particles == 1..NParticles
Dims == 1..Len(DimSizes)
None == <<>>

(***************************************************************************)
(* Exact fractions                                                         *)
(***************************************************************************)
RECURSIVE GCD(_, _)
GCD(a, b) == IF b = 0 THEN a ELSE GCD(b, a % b)

Abs(n) == IF n < 0 THEN 0 - n ELSE n

Norm(x) ==
    LET g == GCD(Abs(x[1]), x[2])
    IN  <<x[1] \div g, x[2] \div g>>

RatAdd(x, y) == Norm(<<x[1] * y[2] + y[1] * x[2], x[2] * y[2]>>)
RatMul(x, y) == Norm(<<x[1] * y[1], x[2] * y[2]>>)
RatInt(k) == <<k, 1>>
Zero == RatInt(0)

\* (pos + velo).astype(int): the fraction cut toward zero
Trunc(x) == IF x[1] >= 0 THEN x[1] \div x[2] ELSE 0 - ((0 - x[1]) \div x[2])

(***************************************************************************)
(* The search space and the evaluator (BaseOptimizer)                      *)
(***************************************************************************)
MaxDimSize == CHOOSE m \in {DimSizes[d] : d \in Dims} : \A d \in Dims : DimSizes[d] <= m

InRange(q) == /\ Len(q) = Len(DimSizes)
              /\ \A d \in Dims : q[d] >= 0 /\ q[d] <= DimSizes[d] - 1

\* the positions _get_random_position can return: every valid position
Positions == {q \in [Dims -> 0..(MaxDimSize - 1)] : InRange(q)}

Clamp(x, lo, hi) == IF x < lo THEN lo ELSE IF x > hi THEN hi ELSE x

\* _limit_pos: every component clamped to the indices of its dimension
LimitPos(q) == [d \in Dims |-> Clamp(q[d], 0, DimSizes[d] - 1)]

\* the positions the evaluator has answered for
Known(obj) == {e[1] : e \in obj}

\* the evaluator's score at q (the same position always gets the same score)
ScoreAt(obj, q) == (CHOOSE e \in obj : e[1] = q)[2]

\* obj with one answer for every position of qs it had none for
Answered(obj, qs, g) == obj \cup {<<q, g[q]>> : q \in qs \ Known(obj)}

(***************************************************************************)
(* ParticleSwarm_Optimizer                                                 *)
(***************************************************************************)
W == <<1, 2>>
C1 == <<4, 5>>
C2 == <<9, 10>>
InitialBestScore == 0

\* _eval_particles decoding p.pos as stored, without _limit_pos
EvalPosUnlimited(p) == pos[p]

\* the position _eval_particles decodes for particle p
EvalPos(p) == LimitPos(pos[p])

\* _find_best_particle taking every particle's score, without the comparison
ImprovesAlways(score, best) == TRUE

\* the test of _find_best_particle
Improves(score, best) == score > best

\* _find_best_particle: the loop over p_list from particle k on
RECURSIVE FindBest(_, _, _)
FindBest(k, bs, bp) ==
    IF k > NParticles THEN <<bs, bp>>
    ELSE IF Improves(p_best_score[k][1], bs)
         THEN FindBest(k + 1, p_best_score[k][1], p_best_pos[k])
         ELSE FindBest(k + 1, bs, bp)

\* new_velocity with the cognitive term B missing its coefficient c1
NewVelocityNoC1(p, r1, r2) ==
    [d \in Dims |->
        LET A == RatMul(W, velo[p][d])
            B == RatMul(r1, RatInt(p_best_pos[p][d] - pos[p][d]))
            C == RatMul(RatMul(c2, r2), RatInt(best_pos[d] - pos[p][d]))
        IN  RatAdd(RatAdd(A, B), C)]

\* new_velocity = A + B + C of _move_particles, for particle p
NewVelocity(p, r1, r2) ==
    [d \in Dims |->
        LET A == RatMul(W, velo[p][d])
            B == RatMul(RatMul(c1, r1), RatInt(p_best_pos[p][d] - pos[p][d]))
            C == RatMul(RatMul(c2, r2), RatInt(best_pos[d] - pos[p][d]))
        IN  RatAdd(RatAdd(A, B), C)]

\* Particle.move
Move(q, v) == [d \in Dims |-> Trunc(RatAdd(RatInt(q[d]), v[d]))]

\* __init__ with the coefficients k1 and k2, and a Hyperactive object after __init__
Constructed(k1, k2) ==
    /\ pc = "new"
    /\ n_steps = 0
    /\ i = 0
    /\ c1 = k1
    /\ c2 = k2
    /\ pos = [p \in Particles |-> None]
    /\ velo = [p \in Particles |-> None]
    /\ p_best_pos = [p \in Particles |-> None]
    /\ p_best_score = [p \in Particles |-> None]
    /\ best_score = InitialBestScore
    /\ best_pos = None
    /\ objective = {}
    /\ result = None
    /\ h_pc = "idle"
    /\ calls = 0
    /\ ray_ = FALSE
    /\ n_jobs = 0
    /\ pending = {}
    /\ driver_out = [j \in 1..MaxJobs |-> None]
    /\ optimizer_ = None
    /\ results = None
    /\ outcome = "none"
    /\ eval_read = "none"

Init == Constructed(C1, C2)

\* _start_particle_swarm_optimization up to the loop: n_steps and _init_particles
InitParticles ==
    /\ pc = "new"
    /\ \E n \in 0..MaxSteps, ip \in [Particles -> Positions], ib \in [Particles -> Positions] :
          /\ n_steps' = n
          /\ pos' = ip
          /\ p_best_pos' = ib
          /\ velo' = [p \in Particles |-> [d \in Dims |-> Zero]]
          /\ pc' = IF n > 0 THEN "eval" ELSE "final"
    /\ UNCHANGED <<i, c1, c2, p_best_score, best_score, best_pos, objective, result,
                   h_vars>>

\* _eval_particles
EvalParticles ==
    /\ pc = "eval"
    /\ LET qs == {EvalPos(p) : p \in Particles}
       IN  \E g \in [qs \ Known(objective) -> Scores] :
              /\ objective' = Answered(objective, qs, g)
              /\ p_best_score' = [p \in Particles |-> <<ScoreAt(objective', EvalPos(p))>>]
    /\ pc' = "find"
    /\ UNCHANGED <<n_steps, i, c1, c2, pos, velo, p_best_pos, best_score, best_pos,
                   result, h_vars>>

\* _find_best_particle
FindBestParticle ==
    /\ pc = "find"
    /\ LET b == FindBest(1, best_score, best_pos)
       IN  /\ best_score' = b[1]
           /\ best_pos' = b[2]
    /\ pc' = "move"
    /\ UNCHANGED <<n_steps, i, c1, c2, pos, velo, p_best_pos, p_best_score, objective,
                   result, h_vars>>

\* _move_particles, and the loop's next iteration or exit.
\* np.subtract(None, p.pos) raises a TypeError before anything is assigned.
MoveParticles ==
    /\ pc = "move"
    /\ IF best_pos = None
       THEN /\ pc' = "error"
            /\ UNCHANGED <<i, pos, velo>>
       ELSE \E r1 \in [Particles -> RandomDraws], r2 \in [Particles -> RandomDraws] :
              /\ velo' = [p \in Particles |-> NewVelocity(p, r1[p], r2[p])]
              /\ pos' = [p \in Particles |-> Move(pos[p], velo'[p])]
              /\ i' = i + 1
              /\ pc' = IF i + 1 < n_steps THEN "eval" ELSE "final"
    /\ UNCHANGED <<n_steps, c1, c2, p_best_pos, p_best_score, best_score, best_pos,
                   objective, result, h_vars>>

\* the end of _start_particle_swarm_optimization: decode best_pos, train, return.
\* Decoding None raises.
Final ==
    /\ pc = "final"
    /\ IF best_pos = None
       THEN /\ pc' = "error"
            /\ UNCHANGED <<objective, result>>
       ELSE \E g \in [{best_pos} \ Known(objective) -> Scores] :
              /\ objective' = Answered(objective, {best_pos}, g)
              /\ result' = <<[score |-> ScoreAt(objective', best_pos), pos |-> best_pos]>>
              /\ pc' = "done"
    /\ UNCHANGED <<n_steps, i, c1, c2, pos, velo, p_best_pos, p_best_score, best_score,
                   best_pos, h_vars>>

Next == InitParticles \/ EvalParticles \/ FindBestParticle \/ MoveParticles \/ Final

Spec == Init /\ [][Next]_vars

(***************************************************************************)
(* Hyperactive.search                                                      *)
(***************************************************************************)
Jobs == 1..n_jobs

\* what one driver ends with: None when every evaluation failed, or its best score
DriverOutcomes == {None} \cup {<<s>> : s \in Scores}

Max(S) == CHOOSE m \in S : \A x \in S : x <= m

\* the best result among the drivers of the call: the highest score, or None
\* when no driver has a viable candidate
Reduce(out) ==
    LET viable == {out[j][1] : j \in {k \in Jobs : out[k] # None}}
    IN  IF viable = {} THEN None ELSE <<Max(viable)>>

\* search up to the optimizers' start: the arguments, ray.is_initialized(), and
\* either the remote optimizers (local to the call) or self._optimizer_
SearchBegin ==
    /\ h_pc = "idle"
    /\ calls < MaxCalls
    /\ \E n \in 1..MaxJobs, r \in BOOLEAN :
          /\ n_jobs' = n
          /\ ray_' = r
          /\ pending' = 1..n
          /\ optimizer_' = IF r THEN optimizer_ ELSE <<[call |-> calls + 1, best |-> None]>>
    /\ calls' = calls + 1
    /\ driver_out' = [j \in 1..MaxJobs |-> None]
    /\ h_pc' = "running"
    /\ outcome' = "none"
    /\ UNCHANGED <<results, eval_read, pso_vars>>

\* one driver of the running call runs to completion
DriverFinish(j) ==
    /\ h_pc = "running"
    /\ j \in pending
    /\ \E o \in DriverOutcomes : driver_out' = [driver_out EXCEPT ![j] = o]
    /\ pending' = pending \ {j}
    /\ UNCHANGED <<h_pc, calls, ray_, n_jobs, optimizer_, results, outcome, eval_read,
                   pso_vars>>

\* the optimizer search() has run: self._optimizer_ holds the call's best result
Searched == [call |-> calls, best |-> Reduce(driver_out)]

\* ray.get(searches) or self._optimizer_.search() has returned: the result
\* fields are read from self._optimizer_
SearchEnd ==
    /\ h_pc = "running"
    /\ pending = {}
    /\ IF ray_
       THEN IF optimizer_ = None
            THEN /\ outcome' = "AttributeError"
                 /\ UNCHANGED <<optimizer_, results>>
            ELSE /\ results' = optimizer_
                 /\ outcome' = "returned"
                 /\ UNCHANGED optimizer_
       ELSE /\ optimizer_' = <<Searched>>
            /\ results' = <<Searched>>
            /\ outcome' = "returned"
    /\ h_pc' = "idle"
    /\ UNCHANGED <<calls, ray_, n_jobs, pending, driver_out, eval_read, pso_vars>>

\* get_eval_time
GetEvalTime ==
    /\ h_pc = "idle"
    /\ eval_read' = IF optimizer_ = None THEN "AttributeError"
                    ELSE IF optimizer_[1].call = calls THEN "current" ELSE "earlier"
    /\ UNCHANGED <<h_pc, calls, ray_, n_jobs, pending, driver_out, optimizer_, results,
                   outcome, pso_vars>>

NextSearch ==
    \/ SearchBegin
    \/ \E j \in 1..MaxJobs : DriverFinish(j)
    \/ SearchEnd
    \/ GetEvalTime

SpecSearch == Init /\ [][NextSearch]_vars

\* the velocity formula with its coefficients as inputs: each of the cognitive
\* and the social coefficient is the code's value or 0
InitInertia == \E k1 \in {Zero, C1}, k2 \in {Zero, C2} : Constructed(k1, k2)

SpecInertia == InitInertia /\ [][Next]_vars

(***************************************************************************)
(* Properties                                                              *)
(***************************************************************************)
\* the highest score among the evaluator's answers obj
BestEvaluated(obj) == Max({e[2] : e \in obj})

\* C1: when the run returns, the returned score is the highest score the
\* evaluator returned for a position evaluated during the steps (the answers
\* it had given before the final call), and the returned assignment decodes a
\* position at which that score was obtained.
C1_ReturnsBestEvaluated ==
    [][(pc = "final" /\ pc' = "done") =>
          /\ objective # {}
          /\ result'[1].score = BestEvaluated(objective)
          /\ <<result'[1].pos, BestEvaluated(objective)>> \in objective]_vars

\* C2: the global best score never decreases, and the global best score and
\* position change only in _find_best_particle, to the score and best_pos of a
\* particle whose score is strictly greater than the global best so far.
C2_GlobalBestMonotone ==
    [][/\ best_score' >= best_score
       /\ <<best_score, best_pos>>' # <<best_score, best_pos>> =>
            /\ pc = "find"
            /\ best_score' > best_score
            /\ \E p \in Particles : /\ p_best_score[p] = <<best_score'>>
                                    /\ p_best_pos[p] = best_pos']_vars

\* a step after the first has found every particle below the global best, which
\* it has kept
C2_Witness ==
    /\ pc = "move"
    /\ i >= 1
    /\ best_pos # None
    /\ \A p \in Particles : p_best_score[p][1] < best_score

\* C3: every position handed to the evaluator (by _eval_particles on each step,
\* and the global best position decoded at the end) has every component
\* inside the indices of its dimension.
C3_DecodedInRange ==
    /\ \A q \in Known(objective) : InRange(q)
    /\ result # None => InRange(result[1].pos)

\* a particle whose stored position has left the search space has been evaluated
C3_Witness ==
    /\ pc = "find"
    /\ \E p \in Particles : ~InRange(pos[p]) /\ EvalPos(p) \in Known(objective)

\* C4: every particle's stored position has one component per dimension, each
\* a valid index, in every state of the run.
C4_StoredPosInRange ==
    \A p \in Particles : pos[p] # None => InRange(pos[p])

\* C5: a particle's best_score never decreases, and whenever it is set its
\* best_pos is the position at which that score was evaluated.
C5_PersonalBest ==
    [][\A p \in Particles :
          /\ p_best_score[p] # None => p_best_score'[p][1] >= p_best_score[p][1]
          /\ p_best_score'[p] # p_best_score[p] => p_best_pos'[p] = EvalPos(p)]_vars

\* the search call has ended (returned or raised)
Ended == h_pc = "idle" /\ calls > 0

\* C6: when a search call for N jobs has ended, the result it exposes is that
\* of the driver with the highest best score among the N drivers of the call.
C6_ResultIsBestDriver ==
    (Ended /\ Reduce(driver_out) # None) =>
        /\ outcome = "returned"
        /\ results # None
        /\ results[1].best = Reduce(driver_out)

C8_NoViableCandidate ==
    (Ended /\ Reduce(driver_out) = None) => outcome = "NoViableCandidate"

\* C9: whenever the global best position is used after an evaluate and
\* find-best (by _move_particles, by the final decode), it is not None.
C9_GlobalBestDefined ==
    (pc = "move" \/ (pc = "final" /\ i > 0)) => best_pos # None

\* C10: a search call that has ended read no unset attribute, and the result
\* fields it set come from an optimizer the same call created and ran.
C10_ResultsFromThisCall ==
    Ended =>
        /\ outcome # "AttributeError"
        /\ outcome = "returned" => (results # None /\ results[1].call = calls)

====
